---- MODULE Spec2Model ----
(***************************************************************************)
(* Model of glm/core/func_vector_relational.hpp: the component-wise vector *)
(* comparisons lessThan, lessThanEqual, greaterThan, greaterThanEqual,     *)
(* equal, notEqual and the boolean-vector functions any, all, not_.        *)
(*                                                                         *)
(* One behaviour is one template instantiation and call: the static        *)
(* assertions of the function are evaluated, then the for-loop of its body *)
(* runs one iteration per step, then the function returns.  Vectors are    *)
(* functions over the source's indices 0..value_size()-1.                  *)
(***************************************************************************)
EXTENDS Integers, FiniteSets, Sequences, TLC

MaxN == 2       \* largest vector size explored (sizes 0..MaxN)
MaxVal == 1     \* numeric components range over 0..MaxVal

OrderFns == {"lessThan", "lessThanEqual", "greaterThan", "greaterThanEqual"}
CompareFns == OrderFns \cup {"equal", "notEqual"}
ReduceFns == {"any", "all"}
BoolFns == ReduceFns \cup {"not_"}
Functions == CompareFns \cup BoolFns

\* The kinds of the template parameter T.
Kinds == {"int", "float", "bool"}

\* Floating-point components: a number or the IEEE not-a-number value.
NaN == [nan |-> TRUE, val |-> 0]
Float(n) == [nan |-> FALSE, val |-> n]

Scalars(K) ==
    CASE K = "int" -> 0..MaxVal
      [] K = "float" -> {Float(n) : n \in 0..MaxVal} \cup {NaN}
      [] K = "bool" -> BOOLEAN

\* bool promoted to int, as the built-in relational operators do.
Promote(b) == IF b THEN 1 ELSE 0

\* The built-in scalar operators applied to two components of kind K.
\* Every ordered comparison and == with a NaN operand is false, != is true.
LessAsLessEqual(K, a, b) ==
    CASE K = "int" -> a <= b
      [] K = "float" -> ~a.nan /\ ~b.nan /\ a.val <= b.val
      [] K = "bool" -> Promote(a) <= Promote(b)
Less(K, a, b) ==
    CASE K = "int" -> a < b
      [] K = "float" -> ~a.nan /\ ~b.nan /\ a.val < b.val
      [] K = "bool" -> Promote(a) < Promote(b)

LessEqual(K, a, b) ==
    CASE K = "int" -> a <= b
      [] K = "float" -> ~a.nan /\ ~b.nan /\ a.val <= b.val
      [] K = "bool" -> Promote(a) <= Promote(b)

Greater(K, a, b) ==
    CASE K = "int" -> a > b
      [] K = "float" -> ~a.nan /\ ~b.nan /\ a.val > b.val
      [] K = "bool" -> Promote(a) > Promote(b)

GreaterEqual(K, a, b) ==
    CASE K = "int" -> a >= b
      [] K = "float" -> ~a.nan /\ ~b.nan /\ a.val >= b.val
      [] K = "bool" -> Promote(a) >= Promote(b)

EqualAsNotEqual(K, a, b) ==
    CASE K = "int" -> a # b
      [] K = "float" -> a.nan \/ b.nan \/ a.val # b.val
      [] K = "bool" -> a # b
Equal(K, a, b) ==
    CASE K = "int" -> a = b
      [] K = "float" -> ~a.nan /\ ~b.nan /\ a.val = b.val
      [] K = "bool" -> a = b

NotEqual(K, a, b) ==
    CASE K = "int" -> a # b
      [] K = "float" -> a.nan \/ b.nan \/ a.val # b.val
      [] K = "bool" -> a # b

\* vecType<bool>::value_size() of a vector.
value_size(v) == Cardinality(DOMAIN v)

\* The vector built by the constructor Result(vecType<bool>::null).
null(n) == [j \in 0..(n - 1) |-> FALSE]

\* The for-loop header: i < vecType<bool>::value_size().  The nine
\* functions have the same header.
LoopCondOffByOne(k, v) == k < value_size(v) - 1
LoopCond(k, v) == k < value_size(v)

VARIABLES
    pc,        \* "idle", "loop", "done" or "rejected" (failed to compile)
    fn,        \* the function instantiated
    isVector,  \* whether vecType<T> is a GLM vector type
    T,         \* the kind of the element type
    x,         \* first operand (the operand v of any, all, not_)
    y,         \* second operand of a comparison
    Result,    \* the local Result of a comparison or of not_: a bool vector
    ResultBool,\* the local Result of any and all: a bool
    i,         \* the loop counter
    reads,     \* the indices at which the operand was read, in order
    assigned   \* the indices of Result assigned by the loop

vars == <<pc, fn, isVector, T, x, y, Result, ResultBool, i, reads, assigned>>

\* The element kinds the parameter types of a function accept: the
\* comparisons take vecType<T> for any T, the boolean functions take
\* vecType<bool> only.
Signature(f) == IF f \in BoolFns THEN {"bool"} ELSE Kinds

\* The conditions a function states with GLM_STATIC_ASSERT.
StaticAssertsNoBoolCheck(f) == {"is_vector"}
StaticAsserts(f) ==
    IF f \in OrderFns THEN {"is_vector", "is_bool_NO"} ELSE {"is_vector"}

\* detail::is_vector<vecType<T> >::_YES and detail::is_bool<T>::_NO.
is_vector_YES(isVec) == isVec
is_bool_NO(K) == K # "bool"

\* GLM_STATIC_ASSERT(cond, message): the instantiation compiles only if the
\* condition holds.
GLM_STATIC_ASSERT(cond) == cond

\* The instantiation f<T, vecType> compiles.
TypeChecks(f, isVec, K) ==
    /\ K \in Signature(f)
    /\ "is_vector" \in StaticAsserts(f) => GLM_STATIC_ASSERT(is_vector_YES(isVec))
    /\ "is_bool_NO" \in StaticAsserts(f) => GLM_STATIC_ASSERT(is_bool_NO(K))

\* The initial value of the local Result.
InitResultAllFalse(f, v) ==
    CASE f = "any" -> FALSE
      [] f = "all" -> FALSE
      [] OTHER -> null(value_size(v))
InitResult(f, v) ==
    CASE f = "any" -> FALSE
      [] f = "all" -> TRUE
      [] OTHER -> null(value_size(v))

\* Loop bodies of the reductions and of not_.
anyBodyAnd(R, v, k) == R /\ v[k]
anyBody(R, v, k) == R \/ v[k]

allBodyOr(R, v, k) == R \/ v[k]
allBody(R, v, k) == R /\ v[k]

notBodySet(R, v, k) == [R EXCEPT ![k] = TRUE]
notBodyCopy(R, v, k) == [R EXCEPT ![k] = v[k]]
notBody(R, v, k) == [R EXCEPT ![k] = ~v[k]]

\* The indices of v read by one evaluation of the loop body: the right
\* operand of || and && is evaluated only if the left one does not decide.
anyReadsEager(R, k) == <<k>>
anyReads(R, k) == IF R THEN <<>> ELSE <<k>>

allReads(R, k) == IF R THEN <<k>> ELSE <<>>

Init ==
    /\ pc = "idle"
    /\ fn \in Functions
    /\ isVector \in BOOLEAN
    /\ T \in Kinds
    /\ \E n \in 0..MaxN :
         /\ x \in [0..(n - 1) -> Scalars(T)]
         /\ IF fn \in CompareFns
               THEN y \in [0..(n - 1) -> Scalars(T)]
               ELSE y = <<>>
    /\ Result = <<>>
    /\ ResultBool = FALSE
    /\ i = 0
    /\ reads = <<>>
    /\ assigned = {}

\* The instantiation compiles and the call enters the function: Result is
\* constructed and the loop counter starts at 0.
Instantiate ==
    /\ pc = "idle"
    /\ TypeChecks(fn, isVector, T)
    /\ pc' = "loop"
    /\ IF fn \in ReduceFns
          THEN ResultBool' = InitResult(fn, x) /\ UNCHANGED Result
          ELSE Result' = InitResult(fn, x) /\ UNCHANGED ResultBool
    /\ i' = 0
    /\ UNCHANGED <<fn, isVector, T, x, y, reads, assigned>>

\* A static assertion or the parameter type rejects the instantiation: no
\* code of the function runs.
Reject ==
    /\ pc = "idle"
    /\ ~TypeChecks(fn, isVector, T)
    /\ pc' = "rejected"
    /\ UNCHANGED <<fn, isVector, T, x, y, Result, ResultBool, i, reads, assigned>>

\* One iteration of lessThan: Result[i] = x[i] < y[i]; ++i.
lessThanIter ==
    /\ pc = "loop"
    /\ fn = "lessThan"
    /\ LoopCond(i, x)
    /\ Result' = [Result EXCEPT ![i] = Less(T, x[i], y[i])]
    /\ reads' = Append(reads, i)
    /\ assigned' = assigned \cup {i}
    /\ i' = i + 1
    /\ UNCHANGED <<pc, fn, isVector, T, x, y, ResultBool>>

\* One iteration of lessThanEqual: Result[i] = x[i] <= y[i]; ++i.
lessThanEqualIter ==
    /\ pc = "loop"
    /\ fn = "lessThanEqual"
    /\ LoopCond(i, x)
    /\ Result' = [Result EXCEPT ![i] = LessEqual(T, x[i], y[i])]
    /\ reads' = Append(reads, i)
    /\ assigned' = assigned \cup {i}
    /\ i' = i + 1
    /\ UNCHANGED <<pc, fn, isVector, T, x, y, ResultBool>>

\* One iteration of greaterThan: Result[i] = x[i] > y[i]; ++i.
greaterThanIter ==
    /\ pc = "loop"
    /\ fn = "greaterThan"
    /\ LoopCond(i, x)
    /\ Result' = [Result EXCEPT ![i] = Greater(T, x[i], y[i])]
    /\ reads' = Append(reads, i)
    /\ assigned' = assigned \cup {i}
    /\ i' = i + 1
    /\ UNCHANGED <<pc, fn, isVector, T, x, y, ResultBool>>

\* One iteration of greaterThanEqual: Result[i] = x[i] >= y[i]; ++i.
greaterThanEqualIter ==
    /\ pc = "loop"
    /\ fn = "greaterThanEqual"
    /\ LoopCond(i, x)
    /\ Result' = [Result EXCEPT ![i] = GreaterEqual(T, x[i], y[i])]
    /\ reads' = Append(reads, i)
    /\ assigned' = assigned \cup {i}
    /\ i' = i + 1
    /\ UNCHANGED <<pc, fn, isVector, T, x, y, ResultBool>>

\* One iteration of equal: Result[i] = x[i] == y[i]; ++i.
equalIter ==
    /\ pc = "loop"
    /\ fn = "equal"
    /\ LoopCond(i, x)
    /\ Result' = [Result EXCEPT ![i] = Equal(T, x[i], y[i])]
    /\ reads' = Append(reads, i)
    /\ assigned' = assigned \cup {i}
    /\ i' = i + 1
    /\ UNCHANGED <<pc, fn, isVector, T, x, y, ResultBool>>

\* One iteration of notEqual: Result[i] = x[i] != y[i]; ++i.
notEqualIter ==
    /\ pc = "loop"
    /\ fn = "notEqual"
    /\ LoopCond(i, x)
    /\ Result' = [Result EXCEPT ![i] = NotEqual(T, x[i], y[i])]
    /\ reads' = Append(reads, i)
    /\ assigned' = assigned \cup {i}
    /\ i' = i + 1
    /\ UNCHANGED <<pc, fn, isVector, T, x, y, ResultBool>>

\* One iteration of any: Result = Result || v[i]; ++i.
anyIter ==
    /\ pc = "loop"
    /\ fn = "any"
    /\ LoopCond(i, x)
    /\ ResultBool' = anyBody(ResultBool, x, i)
    /\ reads' = reads \o anyReads(ResultBool, i)
    /\ i' = i + 1
    /\ UNCHANGED <<pc, fn, isVector, T, x, y, Result, assigned>>

\* One iteration of all: Result = Result && v[i]; ++i.
allIter ==
    /\ pc = "loop"
    /\ fn = "all"
    /\ LoopCond(i, x)
    /\ ResultBool' = allBody(ResultBool, x, i)
    /\ reads' = reads \o allReads(ResultBool, i)
    /\ i' = i + 1
    /\ UNCHANGED <<pc, fn, isVector, T, x, y, Result, assigned>>

\* One iteration of not_: Result[i] = !v[i]; ++i.
notIter ==
    /\ pc = "loop"
    /\ fn = "not_"
    /\ LoopCond(i, x)
    /\ Result' = notBody(Result, x, i)
    /\ reads' = Append(reads, i)
    /\ assigned' = assigned \cup {i}
    /\ i' = i + 1
    /\ UNCHANGED <<pc, fn, isVector, T, x, y, ResultBool>>

\* The loop condition fails: return Result.
Return ==
    /\ pc = "loop"
    /\ ~LoopCond(i, x)
    /\ pc' = "done"
    /\ UNCHANGED <<fn, isVector, T, x, y, Result, ResultBool, i, reads, assigned>>

Next ==
    \/ Instantiate
    \/ Reject
    \/ lessThanIter
    \/ lessThanEqualIter
    \/ greaterThanIter
    \/ greaterThanEqualIter
    \/ equalIter
    \/ notEqualIter
    \/ anyIter
    \/ allIter
    \/ notIter
    \/ Return

Spec == Init /\ [][Next]_vars

\* A call that has started keeps running: nothing in the functions blocks.
FairSpec == Spec /\ WF_vars(Next)

\* The functions as values: the whole loop run on an operand.
RECURSIVE anyLoop(_, _, _)
anyLoop(v, k, R) ==
    IF LoopCond(k, v) THEN anyLoop(v, k + 1, anyBody(R, v, k)) ELSE R
any(v) == anyLoop(v, 0, InitResult("any", v))

RECURSIVE allLoop(_, _, _)
allLoop(v, k, R) ==
    IF LoopCond(k, v) THEN allLoop(v, k + 1, allBody(R, v, k)) ELSE R
all(v) == allLoop(v, 0, InitResult("all", v))

RECURSIVE notLoop(_, _, _)
notLoop(v, k, R) ==
    IF LoopCond(k, v) THEN notLoop(v, k + 1, notBody(R, v, k)) ELSE R
not_(v) == notLoop(v, 0, InitResult("not_", v))

Indices == 0..(value_size(x) - 1)
Returned(f) == pc = "done" /\ fn = f

\* The value of x[k] OP y[k] for integer components, OP the operator of f.
IntOp(f, a, b) ==
    CASE f = "lessThan" -> a < b
      [] f = "lessThanEqual" -> a <= b
      [] f = "greaterThan" -> a > b
      [] f = "greaterThanEqual" -> a >= b
      [] f = "equal" -> a = b
      [] f = "notEqual" -> a # b

\* C1: each of the six comparisons on integer vectors x, y of size N
\* returns a boolean vector of size N with Result[k] = (x[k] OP y[k]) at
\* every index k in 0..N-1.
C1_ComparisonComponentWise ==
    (pc = "done" /\ fn \in CompareFns /\ T = "int") =>
        /\ DOMAIN Result = Indices
        /\ \A k \in Indices : Result[k] \in BOOLEAN
        /\ \A k \in Indices : Result[k] = IntOp(fn, x[k], y[k])

C1_Witness ==
    /\ Returned("lessThan")
    /\ T = "int"
    /\ \E j, k \in Indices : Result[j] /\ ~Result[k] /\ x[k] = y[k]

\* C2: any(v) is true iff at least one element of v is true, for every
\* size; for a zero-length vector it is false.
C2_AnyIsExists ==
    Returned("any") =>
        /\ ResultBool = (\E k \in Indices : x[k])
        /\ (value_size(x) = 0 => ResultBool = FALSE)

C2_Witness ==
    /\ Returned("any")
    /\ ResultBool
    /\ \E k \in Indices : ~x[k]

\* C3: all(v) is true iff every element of v is true, for every size; for
\* a zero-length vector it is true.
C3_AllIsForall ==
    Returned("all") =>
        /\ ResultBool = (\A k \in Indices : x[k])
        /\ (value_size(x) = 0 => ResultBool = TRUE)

C3_Witness ==
    /\ Returned("all")
    /\ ~ResultBool
    /\ \E k \in Indices : x[k]

\* C4: not_(v) returns a boolean vector of the size of v whose element k is
\* the negation of v[k] for every index k, and no step changes v.
C4_NotResult ==
    Returned("not_") =>
        /\ DOMAIN Result = Indices
        /\ \A k \in Indices : Result[k] = ~x[k]

C4_NotComplements == [](C4_NotResult) /\ [][x' = x]_vars

C4_Witness ==
    /\ Returned("not_")
    /\ \E j, k \in Indices : Result[j] /\ ~Result[k]

\* C5: De Morgan duality: the value all(v) returns equals the negation of
\* any applied to not_(v).
C5_DeMorgan ==
    Returned("all") => ResultBool = ~any(not_(x))

C5_Witness ==
    /\ Returned("all")
    /\ ResultBool
    /\ value_size(x) >= 2

\* C6: double negation: not_ applied to the vector not_(v) returns gives v
\* back at every index.
C6_DoubleNegation ==
    Returned("not_") =>
        /\ DOMAIN not_(Result) = Indices
        /\ \A k \in Indices : not_(Result)[k] = x[k]

C6_Witness ==
    /\ Returned("not_")
    /\ \E j, k \in Indices : x[j] /\ ~x[k]

IsNaN(a) == T = "float" /\ a.nan

\* C7 as stated: for any vector x, equal(x,x) is true at every index and
\* notEqual(x,x) is false at every index.
C7_ReflexiveForAnyVector ==
    /\ (Returned("equal") /\ x = y) => \A k \in Indices : Result[k]
    /\ (Returned("notEqual") /\ x = y) => \A k \in Indices : ~Result[k]

\* C7 amended: equal(x,x) is true and notEqual(x,x) is false at every index
\* whose component is not a floating-point NaN; at an index holding NaN,
\* equal(x,x) is false and notEqual(x,x) is true.
C7_ReflexiveExceptNaN ==
    /\ (Returned("equal") /\ x = y) =>
           \A k \in Indices : Result[k] = ~IsNaN(x[k])
    /\ (Returned("notEqual") /\ x = y) =>
           \A k \in Indices : Result[k] = IsNaN(x[k])

C7_Witness ==
    /\ Returned("equal")
    /\ x = y
    /\ \E j, k \in Indices : Result[j] /\ ~Result[k]

C8_Safety ==
    /\ pc \in {"idle", "loop", "done", "rejected"}
    /\ ~TypeChecks(fn, isVector, T) =>
           /\ pc \in {"idle", "rejected"}
           /\ i = 0
           /\ reads = <<>>
           /\ assigned = {}
           /\ Result = <<>>
    /\ pc = "rejected" => ~TypeChecks(fn, isVector, T)
    /\ (pc = "done" /\ fn \in ReduceFns) => ResultBool \in BOOLEAN
    /\ (pc = "done" /\ fn \notin ReduceFns) =>
           /\ DOMAIN Result = Indices
           /\ assigned = Indices

\* C8: an instantiation that violates a type constraint is rejected before
\* any element is computed and never becomes a run-time error; every call
\* that type-checks terminates and returns a result in which every index
\* 0..N-1 has been assigned.
C8_RejectedOrTotal ==
    /\ []C8_Safety
    /\ (TypeChecks(fn, isVector, T) ~> pc = "done")

C8_Witness ==
    /\ Returned("greaterThanEqual")
    /\ value_size(x) >= 2
    /\ assigned = Indices

NoResult == Result = <<>> /\ assigned = {} /\ i = 0

\* C9 as stated: none of the six comparisons accepts boolean-element
\* operands: such a call is rejected and produces no result.
C9_NoComparisonOnBool ==
    (fn \in CompareFns /\ T = "bool" /\ pc # "idle") =>
        (pc = "rejected" /\ NoResult)

\* C9 amended: the four ordering comparisons reject boolean-element
\* operands and produce no result; equal and notEqual accept boolean GLM
\* vectors and return their component-wise equality and inequality.
C9_OrderingRejectsBool ==
    /\ (fn \in OrderFns /\ T = "bool" /\ pc # "idle") =>
           (pc = "rejected" /\ NoResult)
    /\ (fn \in {"equal", "notEqual"} /\ T = "bool" /\ isVector) =>
           /\ pc # "rejected"
           /\ Returned("equal") => \A k \in Indices : Result[k] = (x[k] = y[k])
           /\ Returned("notEqual") => \A k \in Indices : Result[k] = (x[k] # y[k])

C9_Witness ==
    /\ pc = "rejected"
    /\ fn \in OrderFns
    /\ T = "bool"
    /\ isVector
    /\ value_size(x) >= 1

\* The indices 0..n-1 in increasing order.
Upto(n) == [k \in 1..n |-> k - 1]

\* The number of leading elements of v different from b, plus the first
\* element equal to b if there is one.
PrefixThrough(v, b) ==
    IF \E k \in DOMAIN v : v[k] = b
        THEN 1 + CHOOSE k \in DOMAIN v :
                    v[k] = b /\ \A j \in DOMAIN v : j < k => v[j] # b
        ELSE value_size(v)

\* C10 as stated: any and all read every element v[0..N-1] exactly once in
\* increasing index order, whatever the values, and the loop ends after
\* exactly N iterations.
C10_ReadsEveryElement ==
    (pc = "done" /\ fn \in ReduceFns) =>
        (reads = Upto(value_size(x)) /\ i = value_size(x))

\* C10 amended: the loop of any and all ends after exactly N iterations and
\* reads elements in increasing index order, each at most once: any reads
\* the elements up to and including the first true one, all those up to and
\* including the first false one, and all N elements when there is none.
C10_ReadsUntilDecided ==
    /\ Returned("any") =>
           (reads = Upto(PrefixThrough(x, TRUE)) /\ i = value_size(x))
    /\ Returned("all") =>
           (reads = Upto(PrefixThrough(x, FALSE)) /\ i = value_size(x))

C10_Witness ==
    /\ Returned("any")
    /\ Len(reads) < value_size(x)
    /\ Len(reads) >= 1
====
